---- MODULE Spec2Model ----
(***************************************************************************)
(* Model of the dataset reformatter of models/Gemma/lora.ipynb:            *)
(* write_jsonl, form_question and convert_to_jsonl, together with the two  *)
(* files the functions touch.                                              *)
(*                                                                         *)
(* A Python str is a sequence of chunks; the literals of the code          *)
(* ("QUESTION:", "CONTEXT: ", the TARGET suffix) and the newline are       *)
(* chunks of their own.  A JSON object of the source is a function whose   *)
(* DOMAIN is the set of keys it has.  A file is a record: absent, an       *)
(* unparseable document, a JSON mapping, or text written by write_jsonl.   *)
(***************************************************************************)
EXTENDS Integers, Sequences, FiniteSets, TLC

\* ---------------------------------------------------------------- bounds
MaxKeys == 2      \* keys of the source mapping
MaxCtx == 2       \* length of CONTEXTS and of LABELS in a mapping of one key
MaxRuns == 2      \* successive invocations on the same pair of paths

\* ------------------------------------------------------------- constants
NL == "\n"
QuestionLit == "QUESTION:"
ContextLit == "CONTEXT: "
TargetLit == "TARGET: the answer to the question given the context is (yes|no|maybe): "
AnswerKey == "reasoning_required_pred"

\* chunks json.dumps writes around the two values of {"input": .., "output": ..}
ObjOpen == "{\"input\": \""
ObjMid == "\", \"output\": \""
ObjClose == "\"}"

\* ---------------------------------------------------------------- inputs
CtxText == <<"Evidence A", "Evidence B", "Evidence C", "Evidence D">>
LabelText == <<"L1", "L2", "L3", "L4">>
Questions == {<<"Is X true?">>}
Answers == {<<"yes">>}
DataPath == "data.json"
Paths == {"data.json", "out.jsonl"}

ContextSeqs(n) == {[i \in 1..m |-> <<CtxText[i]>>] : m \in 0..n}
LabelSeqs(n) == {[i \in 1..m |-> LabelText[i]] : m \in 0..n}

\* a source record: each of the four keys is present or not; CONTEXTS and
\* LABELS have up to n elements each
OptField(key, vals) == {<<>>} \cup {(key :> v) : v \in vals}
RecordsUpTo(n) ==
    {q @@ c @@ l @@ a : q \in OptField("QUESTION", Questions),
                        c \in OptField("CONTEXTS", ContextSeqs(n)),
                        l \in OptField("LABELS", LabelSeqs(n)),
                        a \in OptField(AnswerKey, Answers)}
SourceRecords == RecordsUpTo(MaxCtx)
ShortRecords == RecordsUpTo(1)

SeqsUpTo(S, n) == UNION {[1..m -> S] : m \in 0..n}

NoFile == [kind |-> "absent", map |-> <<>>, text |-> <<>>]
BadFile == [kind |-> "invalid", map |-> <<>>, text |-> <<>>]
MapFile(m) == [kind |-> "mapping", map |-> m, text |-> <<>>]
TextFile(t) == [kind |-> "text", map |-> <<>>, text |-> t]
StaleOut == TextFile(<<"stale", NL>>)

\* complete records that differ in the answer only
OtherAnswers == {<<"no">>, <<"maybe">>}
AnswerRecords ==
    {[QUESTION |-> <<"Is X true?">>, CONTEXTS |-> << <<CtxText[1]>> >>,
      LABELS |-> <<LabelText[1]>>, reasoning_required_pred |-> a] : a \in OtherAnswers}

\* the source files: no file, an unparseable one, the mappings of one key to a
\* record of any shape or of any answer, the mappings of up to MaxKeys keys to
\* short records
SourceFiles ==
    {NoFile, BadFile}
        \cup {MapFile(<<r>>) : r \in SourceRecords \cup AnswerRecords}
        \cup {MapFile(m) : m \in SeqsUpTo(ShortRecords, MaxKeys)}

Prefixes(s) == {SubSeq(s, 1, n) : n \in 0..Len(s)}

VARIABLES
    fs,           \* path -> file
    data_path,    \* argument of convert_to_jsonl
    output_path,  \* argument of convert_to_jsonl
    pc,           \* position of the invocation
    data,         \* the parsed mapping, in iteration order of its keys
    k,            \* position in data.keys() of the key of the current iteration
    prompt,       \* outcome of the last call of form_question
    json_objs,    \* the list convert_to_jsonl builds
    handle,       \* the output file object f of write_jsonl
    buf,          \* text written to f and not yet flushed to the file
    wi,           \* number of objects write_jsonl has passed to f.write
    error,        \* the exception raised out of the invocation, "" if none
    ret,          \* the value returned to the caller
    opens,        \* files opened for writing by this invocation
    runs,         \* invocations started
    pre,          \* the files as they were when the invocation started
    prev          \* outcome of the previous invocation

vars == <<fs, data_path, output_path, pc, data, k, prompt, json_objs, handle,
          buf, wi, error, ret, opens, runs, pre, prev>>

NoRet == [returned |-> FALSE, val |-> <<>>]
NoPrev == [ok |-> FALSE, out |-> NoFile, val |-> <<>>]
NoPrompt == [err |-> "", st |-> <<>>]

\* ------------------------------------------------------- pure functions

\* json.dumps of a str (ensure_ascii): the newline becomes backslash-n
EscapeChunk(c) == IF c = NL THEN "\\n" ELSE c
Escape(s) == [i \in 1..Len(s) |-> EscapeChunk(s[i])]

\* json.dumps(o) for o = {"input": .., "output": ..}
json_dumps(o) == <<ObjOpen>> \o Escape(o.input) \o <<ObjMid>> \o Escape(o.output) \o <<ObjClose>>

Raise(e) == [err |-> e, st |-> <<>>]
Value(s) == [err |-> "", st |-> s]

\* the loop with a newline written after the suffix
RECURSIVE form_question_loop_trailing(_, _, _)
form_question_loop_trailing(obj, i, st) ==
    IF i > Len(obj["LABELS"]) THEN Value(st \o <<TargetLit, NL>>)
    ELSE IF "CONTEXTS" \notin DOMAIN obj THEN Raise("KeyError")
    ELSE IF i > Len(obj["CONTEXTS"]) THEN Raise("IndexError")
    ELSE form_question_loop_trailing(obj, i + 1, st \o obj["CONTEXTS"][i] \o <<NL>>)

\* the loop written as "for i, c in enumerate(obj['CONTEXTS'])"
RECURSIVE form_question_loop_contexts(_, _, _)
form_question_loop_contexts(obj, i, st) ==
    IF "CONTEXTS" \notin DOMAIN obj THEN Raise("KeyError")
    ELSE IF i > Len(obj["CONTEXTS"]) THEN Value(st \o <<TargetLit>>)
    ELSE form_question_loop_contexts(obj, i + 1, st \o obj["CONTEXTS"][i] \o <<NL>>)

\* the loop "for i, label in enumerate(obj['LABELS'])", i counted from 1
RECURSIVE form_question_loop(_, _, _)
form_question_loop(obj, i, st) ==
    IF i > Len(obj["LABELS"]) THEN Value(st \o <<TargetLit>>)
    ELSE IF "CONTEXTS" \notin DOMAIN obj THEN Raise("KeyError")
    ELSE IF i > Len(obj["CONTEXTS"]) THEN Raise("IndexError")
    ELSE form_question_loop(obj, i + 1, st \o obj["CONTEXTS"][i] \o <<NL>>)

\* the question line without its newline
form_question_noqnl(obj) ==
    IF "str" \in DOMAIN obj THEN Raise("TypeError")
    ELSE IF "QUESTION" \notin DOMAIN obj THEN Raise("KeyError")
    ELSE IF "LABELS" \notin DOMAIN obj THEN Raise("KeyError")
    ELSE form_question_loop(obj, 1, <<QuestionLit>> \o obj["QUESTION"] \o <<ContextLit>>)

form_question(obj) ==
    IF "str" \in DOMAIN obj THEN Raise("TypeError")
    ELSE IF "QUESTION" \notin DOMAIN obj THEN Raise("KeyError")
    ELSE IF "LABELS" \notin DOMAIN obj THEN Raise("KeyError")
    ELSE form_question_loop(obj, 1, <<QuestionLit>> \o obj["QUESTION"] \o <<NL>> \o <<ContextLit>>)

\* the iteration with completion = obj.get('reasoning_required_pred')
convert_record_get(obj) ==
    LET p == form_question(obj) IN
    IF p.err # "" THEN [err |-> p.err, o |-> <<>>]
    ELSE [err |-> "",
          o |-> <<[input |-> p.st,
                   output |-> IF AnswerKey \in DOMAIN obj THEN obj[AnswerKey] ELSE <<"null">>]>>]

\* the iteration with the completion taken from the labels of the passages
convert_record_labels(obj) ==
    LET p == form_question(obj) IN
    IF p.err # "" THEN [err |-> p.err, o |-> <<>>]
    ELSE IF AnswerKey \notin DOMAIN obj THEN [err |-> "KeyError", o |-> <<>>]
    ELSE [err |-> "",
          o |-> <<[input |-> p.st,
                   output |-> IF Len(obj["LABELS"]) > 0 THEN <<obj["LABELS"][1]>>
                              ELSE obj[AnswerKey]]>>]

\* one iteration of "for k in data.keys()": the object appended, or the error
convert_record(obj) ==
    LET p == form_question(obj) IN
    IF p.err # "" THEN [err |-> p.err, o |-> <<>>]
    ELSE IF AnswerKey \notin DOMAIN obj THEN [err |-> "KeyError", o |-> <<>>]
    ELSE [err |-> "", o |-> <<[input |-> p.st, output |-> obj[AnswerKey]]>>]

\* json.load of text that write_jsonl wrote: one object, with or without its
\* newline, is a mapping of two keys to str values; anything else is an error
OneObject(t) ==
    LET b == IF t # <<>> /\ t[Len(t)] = NL THEN SubSeq(t, 1, Len(t) - 1) ELSE t IN
    /\ b # <<>>
    /\ b[1] = ObjOpen
    /\ b[Len(b)] = ObjClose
    /\ \A i \in 1..(Len(b) - 1) : b[i] # ObjClose /\ b[i] # NL

json_load(file) ==
    CASE file.kind = "absent" -> [err |-> "OSError", map |-> <<>>]
      [] file.kind = "invalid" -> [err |-> "JSONDecodeError", map |-> <<>>]
      [] file.kind = "mapping" -> [err |-> "", map |-> file.map]
      [] file.kind = "text" ->
            IF OneObject(file.text)
            THEN [err |-> "", map |-> <<[str |-> "input"], [str |-> "output"]>>]
            ELSE [err |-> "JSONDecodeError", map |-> <<>>]

\* --------------------------------------------------------------- actions
Init ==
    /\ data_path = DataPath
    /\ output_path \in Paths
    /\ \E src \in SourceFiles, out \in {NoFile, StaleOut} :
          fs = [p \in Paths |-> IF p = DataPath THEN src ELSE out]
    /\ pc = "idle"
    /\ data = <<>>
    /\ k = 0
    /\ prompt = NoPrompt
    /\ json_objs = <<>>
    /\ handle = "closed"
    /\ buf = <<>>
    /\ wi = 0
    /\ error = ""
    /\ ret = NoRet
    /\ opens = 0
    /\ runs = 0
    /\ pre = fs
    /\ prev = NoPrev

Fail(e) ==
    /\ pc' = "failed"
    /\ error' = e

\* the call convert_to_jsonl(data_path, output_path)
Invoke ==
    /\ pc \in {"idle", "done", "failed"}
    /\ runs < MaxRuns
    /\ runs' = runs + 1
    /\ pc' = "load"
    /\ pre' = fs
    /\ prev' = IF pc = "done" THEN [ok |-> TRUE, out |-> fs[output_path], val |-> ret.val]
               ELSE NoPrev
    /\ data' = <<>>
    /\ k' = 0
    /\ prompt' = NoPrompt
    /\ json_objs' = <<>>
    /\ wi' = 0
    /\ buf' = <<>>
    /\ error' = ""
    /\ ret' = NoRet
    /\ opens' = 0
    /\ UNCHANGED <<fs, data_path, output_path, handle>>

\* convert_to_jsonl opening the output file before the loop over the keys
Load_opensfirst ==
    /\ pc = "load"
    /\ LET r == json_load(fs[data_path]) IN
         IF r.err # "" THEN Fail(r.err) /\ UNCHANGED <<data, fs>>
         ELSE /\ data' = r.map
              /\ pc' = "convert"
              /\ fs' = [fs EXCEPT ![output_path] = TextFile(<<>>)]
              /\ UNCHANGED error
    /\ UNCHANGED <<data_path, output_path, k, prompt, json_objs, handle, buf,
                   wi, ret, opens, runs, pre, prev>>

\* data = json.load(open(data_path, 'rt')); json_objs = []
Load ==
    /\ pc = "load"
    /\ LET r == json_load(fs[data_path]) IN
         IF r.err # "" THEN Fail(r.err) /\ UNCHANGED data
         ELSE /\ data' = r.map
              /\ pc' = "convert"
              /\ UNCHANGED error
    /\ UNCHANGED <<fs, data_path, output_path, k, prompt, json_objs, handle, buf,
                   wi, ret, opens, runs, pre, prev>>

\* one iteration of the loop over data.keys()
ConvertRecord ==
    /\ pc = "convert"
    /\ k < Len(data)
    /\ k' = k + 1
    /\ prompt' = form_question(data[k + 1])
    /\ LET r == convert_record(data[k + 1]) IN
         IF r.err # "" THEN Fail(r.err) /\ UNCHANGED json_objs
         ELSE /\ json_objs' = json_objs \o r.o
              /\ UNCHANGED <<pc, error>>
    /\ UNCHANGED <<fs, data_path, output_path, data, handle, buf, wi, ret,
                   opens, runs, pre, prev>>

\* write_jsonl opening the file with mode 'at': text already there is kept
OpenOut_append ==
    /\ pc = "convert"
    /\ k = Len(data)
    /\ fs' = [fs EXCEPT ![output_path] =
                 IF fs[output_path].kind = "text" THEN fs[output_path] ELSE TextFile(<<>>)]
    /\ handle' = "open"
    /\ opens' = opens + 1
    /\ buf' = <<>>
    /\ wi' = 0
    /\ pc' = "write"
    /\ UNCHANGED <<data_path, output_path, data, k, prompt, json_objs, error, ret, runs, pre, prev>>

\* write_jsonl called with data_path: the source file is the one truncated
OpenOut_datapath ==
    /\ pc = "convert"
    /\ k = Len(data)
    /\ fs' = [fs EXCEPT ![data_path] = TextFile(<<>>)]
    /\ handle' = "open"
    /\ opens' = opens + 1
    /\ buf' = <<>>
    /\ wi' = 0
    /\ pc' = "write"
    /\ UNCHANGED <<data_path, output_path, data, k, prompt, json_objs, error, ret, runs, pre, prev>>

\* write_jsonl: open(fname, 'wt') creates or truncates the file
OpenOut ==
    /\ pc = "convert"
    /\ k = Len(data)
    /\ fs' = [fs EXCEPT ![output_path] = TextFile(<<>>)]
    /\ handle' = "open"
    /\ opens' = opens + 1
    /\ buf' = <<>>
    /\ wi' = 0
    /\ pc' = "write"
    /\ UNCHANGED <<data_path, output_path, data, k, prompt, json_objs, error, ret, runs, pre, prev>>

\* write_jsonl: open(fname, 'wt') raises
OpenOutFail ==
    /\ pc = "convert"
    /\ k = Len(data)
    /\ Fail("OSError")
    /\ UNCHANGED <<fs, data_path, output_path, data, k, prompt, json_objs, handle, buf, wi,
                   ret, opens, runs, pre, prev>>

\* f.write(json.dumps(o)) without its newline
NextLine_nonewline == json_dumps(json_objs[wi + 1])

NextLine == json_dumps(json_objs[wi + 1]) \o <<NL>>
Appended(t) == [fs EXCEPT ![output_path] = TextFile(fs[output_path].text \o t)]

\* f.write(json.dumps(o)+"\n"): the text stays in the buffer of f, or the
\* buffer is flushed to the file
WriteLine ==
    /\ pc = "write"
    /\ wi < Len(json_objs)
    /\ wi' = wi + 1
    /\ \/ buf' = buf \o NextLine /\ UNCHANGED fs
       \/ buf' = <<>> /\ fs' = Appended(buf \o NextLine)
    /\ UNCHANGED <<data_path, output_path, pc, data, k, prompt, json_objs, handle, error,
                   ret, opens, runs, pre, prev>>

\* write_jsonl without the with statement: the exception leaves f open
WriteFail_leak ==
    /\ pc = "write"
    /\ wi < Len(json_objs)
    /\ \E p \in Prefixes(buf \o (json_dumps(json_objs[wi + 1]) \o <<NL>>)) :
          fs' = [fs EXCEPT ![output_path] = TextFile(fs[output_path].text \o p)]
    /\ buf' = <<>>
    /\ pc' = "failed"
    /\ error' = "OSError"
    /\ UNCHANGED <<data_path, output_path, data, k, prompt, json_objs, handle, wi, ret,
                   opens, runs, pre, prev>>

\* write_jsonl catching the exception and starting the file again
WriteFail_retry ==
    /\ pc = "write"
    /\ wi < Len(json_objs)
    /\ fs' = [fs EXCEPT ![output_path] = TextFile(<<>>)]
    /\ buf' = <<>>
    /\ wi' = 0
    /\ opens' = opens + 1
    /\ UNCHANGED <<data_path, output_path, pc, data, k, prompt, json_objs, handle, error,
                   ret, runs, pre, prev>>

\* f.write raises: some of the pending text reached the file, the with
\* statement closes f and the exception leaves write_jsonl
WriteFail ==
    /\ pc = "write"
    /\ wi < Len(json_objs)
    /\ \E p \in Prefixes(buf \o NextLine) : fs' = Appended(p)
    /\ buf' = <<>>
    /\ handle' = "closed"
    /\ Fail("OSError")
    /\ UNCHANGED <<data_path, output_path, data, k, prompt, json_objs, wi, ret, opens,
                   runs, pre, prev>>

\* write_jsonl that never closes f: the buffered text never reaches the file
CloseOut_noflush ==
    /\ pc = "write"
    /\ wi = Len(json_objs)
    /\ buf' = <<>>
    /\ ret' = [returned |-> TRUE, val |-> json_objs]
    /\ pc' = "done"
    /\ UNCHANGED <<fs, data_path, output_path, data, k, prompt, json_objs, handle, wi,
                   error, opens, runs, pre, prev>>

\* the end of the with block closes f, flushing its buffer; convert_to_jsonl
\* then returns json_objs
CloseOut ==
    /\ pc = "write"
    /\ wi = Len(json_objs)
    /\ fs' = Appended(buf)
    /\ buf' = <<>>
    /\ handle' = "closed"
    /\ ret' = [returned |-> TRUE, val |-> json_objs]
    /\ pc' = "done"
    /\ UNCHANGED <<data_path, output_path, data, k, prompt, json_objs, wi, error, opens,
                   runs, pre, prev>>

\* the flush of close raises: f is closed all the same
CloseFail ==
    /\ pc = "write"
    /\ wi = Len(json_objs)
    /\ \E p \in Prefixes(buf) : fs' = Appended(p)
    /\ buf' = <<>>
    /\ handle' = "closed"
    /\ Fail("OSError")
    /\ UNCHANGED <<data_path, output_path, data, k, prompt, json_objs, wi, ret, opens,
                   runs, pre, prev>>

Next ==
    \/ Invoke
    \/ Load
    \/ ConvertRecord
    \/ OpenOut
    \/ OpenOutFail
    \/ WriteLine
    \/ WriteFail
    \/ CloseOut
    \/ CloseFail

Spec == Init /\ [][Next]_vars

TypeOK ==
    /\ pc \in {"idle", "load", "convert", "write", "done", "failed"}
    /\ handle \in {"open", "closed"}
    /\ runs \in 0..MaxRuns

\* ------------------------------------------------- vocabulary of the claims
Terminal == pc \in {"done", "failed"}
Source == pre[data_path]
Output == fs[output_path]
HasAll(obj, keys) == keys \subseteq DOMAIN obj
AllKeys == {"QUESTION", "CONTEXTS", "LABELS", AnswerKey}

\* the lines of a text: the chunks between its newlines
LineEnds(t) == {i \in 1..Len(t) : t[i] = NL}
NthEnd(t, j) == CHOOSE i \in LineEnds(t) : Cardinality({e \in LineEnds(t) : e <= i}) = j
Lines(t) ==
    [j \in 1..Cardinality(LineEnds(t)) |->
        SubSeq(t, (IF j = 1 THEN 1 ELSE NthEnd(t, j - 1) + 1), NthEnd(t, j) - 1)]
EndsLine(t) == t = <<>> \/ t[Len(t)] = NL

\* the prompt of the specification: question line, "CONTEXT: ", the first n
\* passages each followed by a newline, the suffix
RECURSIVE Passages(_, _)
Passages(c, n) == IF n = 0 THEN <<>> ELSE Passages(c, n - 1) \o c[n] \o <<NL>>
ExpectedPrompt(q, c, n) ==
    <<QuestionLit>> \o q \o <<NL>> \o <<ContextLit>> \o Passages(c, n) \o <<TargetLit>>
ExpectedRecord(obj) ==
    [input |-> ExpectedPrompt(obj["QUESTION"],
                              IF "CONTEXTS" \in DOMAIN obj THEN obj["CONTEXTS"] ELSE <<>>,
                              Len(obj["LABELS"])),
     output |-> obj[AnswerKey]]
\* the serialized form of a record, one chunk per JSON token and string chunk
ExpectedLine(o) ==
    <<ObjOpen>> \o [i \in 1..Len(o.input) |-> IF o.input[i] = NL THEN "\\n" ELSE o.input[i]]
        \o <<ObjMid>> \o o.output \o <<ObjClose>>

\* C1: after a successful invocation the output file has as many lines as the
\* source mapping has keys, the returned list has that length, and the i-th
\* line and the i-th returned record are the ones of the i-th key.
C1_LinesMatchKeys ==
    pc = "done" =>
        /\ Output.kind = "text"
        /\ EndsLine(Output.text)
        /\ Len(Lines(Output.text)) = Len(Source.map)
        /\ ret.returned /\ Len(ret.val) = Len(Source.map)
        /\ \A i \in 1..Len(Source.map) :
              /\ ret.val[i] = ExpectedRecord(Source.map[i])
              /\ Lines(Output.text)[i] = ExpectedLine(ExpectedRecord(Source.map[i]))

C1_Witness ==
    /\ pc = "done"
    /\ output_path # data_path
    /\ Len(Source.map) = 2
    /\ Len(Lines(Output.text)) = 2
    /\ Lines(Output.text)[1] # Lines(Output.text)[2]
    /\ ret.val[1] # ret.val[2]

\* C2: for a record with QUESTION q, CONTEXTS c and LABELS l, len(c) >= len(l),
\* form_question returns "QUESTION:" q newline "CONTEXT: ", then c[0..len(l)-1]
\* in index order each followed by a newline, then the suffix; no label value
\* is part of the text; the record of the scenario gives the scenario's prompt.
C2Case(obj) ==
    /\ HasAll(obj, {"QUESTION", "CONTEXTS", "LABELS"})
    /\ Len(obj["CONTEXTS"]) >= Len(obj["LABELS"])
ScenarioRecord ==
    [QUESTION |-> <<"Is X true?">>, CONTEXTS |-> << <<"Evidence A">> >>,
     LABELS |-> <<"L1">>, reasoning_required_pred |-> <<"yes">>]
ScenarioPrompt ==
    <<"QUESTION:", "Is X true?", "\n", "CONTEXT: ", "Evidence A", "\n",
      "TARGET: the answer to the question given the context is (yes|no|maybe): ">>
C2_PromptText ==
    (k > 0 /\ C2Case(data[k])) =>
        /\ prompt.err = ""
        /\ prompt.st = ExpectedPrompt(data[k]["QUESTION"], data[k]["CONTEXTS"],
                                      Len(data[k]["LABELS"]))
        /\ \A j \in 1..Len(prompt.st) :
              \A i \in 1..Len(data[k]["LABELS"]) : prompt.st[j] # data[k]["LABELS"][i]
        /\ (data[k] = ScenarioRecord => prompt.st = ScenarioPrompt)

C2_Witness ==
    /\ k > 0
    /\ C2Case(data[k])
    /\ Len(data[k]["CONTEXTS"]) = 2
    /\ Len(data[k]["LABELS"]) = 2
    /\ prompt.err = ""
    /\ prompt.st[5] = "Evidence A"
    /\ prompt.st[7] = "Evidence B"

\* a record every step of the conversion accepts
Convertible(obj) ==
    /\ HasAll(obj, {"QUESTION", "LABELS", AnswerKey})
    /\ \/ Len(obj["LABELS"]) = 0
       \/ "CONTEXTS" \in DOMAIN obj /\ Len(obj["CONTEXTS"]) >= Len(obj["LABELS"])
AllConvertible ==
    /\ Source.kind = "mapping"
    /\ \A i \in 1..Len(Source.map) : Convertible(Source.map[i])
\* the full output: the lines of all source records
RECURSIVE FullTextUpTo(_)
FullTextUpTo(n) ==
    IF n = 0 THEN <<>>
    ELSE FullTextUpTo(n - 1) \o ExpectedLine(ExpectedRecord(Source.map[n])) \o <<NL>>
FullText == FullTextUpTo(Len(Source.map))

\* C3 (as stated): after an invocation, successful or failed, the output file
\* holds the full set of lines or was not written at all.
C3_AllOrNothing ==
    Terminal =>
        \/ Output = pre[output_path]
        \/ AllConvertible /\ Output = TextFile(FullText)

\* C3 (amended): until the output file is opened it is as it was before the
\* invocation; from then on it holds a prefix of the full output, the whole
\* of it on a normal return, and a failure after the open is an I/O error.
C3_PrefixOnFailure ==
    /\ opens = 0 => Output = pre[output_path]
    /\ opens # 0 =>
          /\ AllConvertible
          /\ Output.kind = "text"
          /\ Output.text \in Prefixes(FullText)
          /\ pc = "failed" => error = "OSError"
    /\ pc = "done" => opens = 1 /\ Output = TextFile(FullText)

C3_Witness ==
    /\ pc = "failed"
    /\ opens = 1
    /\ pre[output_path] = StaleOut
    /\ Output.text # <<>>
    /\ Output.text # FullText
    /\ ~EndsLine(Output.text)

\* C4 (as stated): if any record of the source mapping lacks one of the four
\* fields, the invocation fails with a missing-field error and returns no list.
Lacks(obj) == \E key \in AllKeys : key \notin DOMAIN obj
C4_MissingFieldFails ==
    (Terminal /\ Source.kind = "mapping" /\ \E i \in 1..Len(Source.map) : Lacks(Source.map[i]))
        => (pc = "failed" /\ error = "KeyError" /\ ~ret.returned)

\* C4 (amended): the invocation fails at the first record, in iteration order,
\* that lacks QUESTION, LABELS or the answer field, that lacks CONTEXTS while
\* its LABELS is not empty, or whose LABELS is longer than its CONTEXTS; it
\* returns no list and never opens the output; the error is an index error if
\* that record has QUESTION, CONTEXTS and LABELS with LABELS the longer, and a
\* missing-field error otherwise.  A record lacking only CONTEXTS, with empty
\* LABELS, is converted.
Needed(obj) ==
    \/ \E key \in {"QUESTION", "LABELS", AnswerKey} : key \notin DOMAIN obj
    \/ "CONTEXTS" \notin DOMAIN obj /\ Len(obj["LABELS"]) > 0
TooShort(obj) ==
    /\ HasAll(obj, {"QUESTION", "CONTEXTS", "LABELS"})
    /\ Len(obj["CONTEXTS"]) < Len(obj["LABELS"])
Rejected(obj) == Needed(obj) \/ TooShort(obj)
FirstRejected(m) ==
    CHOOSE i \in 1..Len(m) : Rejected(m[i]) /\ \A j \in 1..(i - 1) : ~Rejected(m[j])
C4_FirstErrorWins ==
    (Terminal /\ Source.kind = "mapping") =>
        IF \E i \in 1..Len(Source.map) : Rejected(Source.map[i])
        THEN /\ pc = "failed"
             /\ ~ret.returned
             /\ opens = 0
             /\ k = FirstRejected(Source.map)
             /\ error = IF TooShort(Source.map[k]) THEN "IndexError" ELSE "KeyError"
        ELSE error \in {"", "OSError"}

C4_Witness ==
    /\ pc = "failed"
    /\ error = "KeyError"
    /\ k = 2
    /\ DOMAIN Source.map[2] = AllKeys \ {AnswerKey}
    /\ ~TooShort(Source.map[2])

\* C5 (as stated): after an invocation the file at data_path holds what it
\* held before, whatever the two paths and the outcome.
C5_SourceUnchanged == Terminal => fs[data_path] = pre[data_path]

\* C5 (amended): when output_path and data_path name different files the
\* source file is never changed; when they name the same file it is unchanged
\* exactly as long as the invocation has not opened the output.
C5_SourceUnchangedUnlessAliased ==
    /\ output_path # data_path => fs[data_path] = pre[data_path]
    /\ output_path = data_path => (fs[data_path] = pre[data_path] <=> opens = 0)

C5_Witness ==
    /\ pc = "done"
    /\ output_path # data_path
    /\ Len(Source.map) = 2
    /\ Output.text # <<>>

\* C6: the input of every record of json_objs, of the returned list and of
\* every line written ends with the suffix, zero contexts included.
Last(s) == s[Len(s)]
EndsWithSuffix(st) == st # <<>> /\ Last(st) = TargetLit
MidPos(line) == CHOOSE i \in 1..Len(line) : line[i] = ObjMid
InputOf(line) == SubSeq(line, 2, MidPos(line) - 1)
C6_SuffixLast ==
    /\ \A i \in 1..Len(json_objs) : EndsWithSuffix(json_objs[i].input)
    /\ \A i \in 1..Len(ret.val) : EndsWithSuffix(ret.val[i].input)
    /\ opens # 0 =>
          \A j \in 1..Len(Lines(Output.text)) :
              /\ Lines(Output.text)[j][1] = ObjOpen
              /\ EndsWithSuffix(InputOf(Lines(Output.text)[j]))

C6_Witness ==
    /\ pc = "done"
    /\ output_path # data_path
    /\ Len(ret.val) = 2
    /\ Len(Source.map[1]["LABELS"]) = 0
    /\ Len(Source.map[2]["LABELS"]) = 1
    /\ Len(Lines(Output.text)) = 2

\* C7: when an invocation returns normally right after another that did, the
\* output file holds what it held after the first and the lists are equal.
C7_Idempotent ==
    (pc = "done" /\ prev.ok) => (Output = prev.out /\ ret.val = prev.val)

C7_Witness ==
    /\ pc = "done"
    /\ pre[output_path] = prev.out
    /\ prev.ok
    /\ Len(ret.val) = 2
    /\ Output.text # <<>>

\* C8 (as stated): for a record whose CONTEXTS and LABELS differ in length,
\* form_question returns a prompt with min(len) passages that ends with the
\* suffix, or raises an index error.
Min(a, b) == IF a < b THEN a ELSE b
NPassages(st) == Cardinality({j \in 1..Len(st) : \E i \in 1..Len(CtxText) : st[j] = CtxText[i]})
Mismatched(obj) ==
    /\ HasAll(obj, {"CONTEXTS", "LABELS"})
    /\ Len(obj["CONTEXTS"]) # Len(obj["LABELS"])
TruncatesOrIndexError(obj) ==
    \/ /\ prompt.err = ""
       /\ NPassages(prompt.st) = Min(Len(obj["CONTEXTS"]), Len(obj["LABELS"]))
       /\ EndsWithSuffix(prompt.st)
    \/ prompt.err = "IndexError"
C8_TwoOutcomes ==
    (k > 0 /\ Mismatched(data[k])) => TruncatesOrIndexError(data[k])

\* C8 (amended): the same for a record that has a QUESTION; a record without
\* QUESTION raises a missing-field error whatever the two lengths.
C8_TwoOutcomesGivenQuestion ==
    (k > 0 /\ Mismatched(data[k])) =>
        IF "QUESTION" \in DOMAIN data[k] THEN TruncatesOrIndexError(data[k])
        ELSE prompt.err = "KeyError"

C8_Witness ==
    /\ k > 0
    /\ Mismatched(data[k])
    /\ "QUESTION" \in DOMAIN data[k]
    /\ Len(data[k]["CONTEXTS"]) = 2
    /\ Len(data[k]["LABELS"]) = 1
    /\ prompt.err = ""
    /\ NPassages(prompt.st) = 1

\* C9: no output file handle is open when the invocation has ended, normally
\* or by a failure, and none is open before every record has been converted.
C9_HandleScoped ==
    /\ pc \in {"idle", "done", "failed"} => handle = "closed"
    /\ handle = "open" => (pc = "write" /\ k = Len(data) /\ Len(json_objs) = Len(data))
    /\ pc \in {"load", "convert"} => handle = "closed"

C9_Witness ==
    /\ pc = "failed"
    /\ error = "OSError"
    /\ opens = 1
    /\ wi = 1
    /\ handle = "closed"

\* C10 (as stated): every invocation opens the file at output_path for
\* writing exactly once and writes no other file.
OthersUntouched == \A p \in Paths \ {output_path} : fs[p] = pre[p]
C10_ExactlyOnce == Terminal => (opens = 1 /\ OthersUntouched)

\* C10 (amended): an invocation opens the file at output_path at most once,
\* exactly once when it returns normally and not at all when it fails while
\* reading or converting; it writes no other file, and its steps are never
\* taken again: after a failure nothing follows but a new call.
Rank(p) ==
    CASE p = "idle" -> 0 [] p = "load" -> 1 [] p = "convert" -> 2
      [] p = "write" -> 3 [] p = "done" -> 4 [] p = "failed" -> 4
C10_State ==
    /\ opens \in {0, 1}
    /\ pc = "done" => opens = 1
    /\ (pc = "failed" /\ (error # "OSError" \/ Source.kind = "absent")) => opens = 0
    /\ OthersUntouched
C10_Step ==
    runs' = runs =>
        /\ Rank(pc') >= Rank(pc)
        /\ pc = "failed" => pc' = "failed"
        /\ opens' >= opens
C10_AtMostOnce == []C10_State /\ [][C10_Step]_vars

C10_Witness ==
    /\ pc = "done"
    /\ runs = 2
    /\ opens = 1
    /\ output_path # data_path
    /\ fs[data_path].kind = "mapping"

\* the record a written line stands for: what json.loads gives for it
Unescape(s) == [i \in 1..Len(s) |-> IF s[i] = "\\n" THEN NL ELSE s[i]]
WellFormedLine(line) ==
    /\ Len(line) >= 3
    /\ line[1] = ObjOpen
    /\ line[Len(line)] = ObjClose
    /\ Cardinality({i \in 1..Len(line) : line[i] = ObjMid}) = 1
    /\ \A i \in 2..Len(line) : line[i] # ObjOpen
    /\ \A i \in 1..(Len(line) - 1) : line[i] # ObjClose
DecodeLine(line) ==
    [input |-> Unescape(SubSeq(line, 2, MidPos(line) - 1)),
     output |-> Unescape(SubSeq(line, MidPos(line) + 1, Len(line) - 1))]

\* C11: every record convert_to_jsonl produces has the two fields input and
\* output and no other, input being form_question of the source record and
\* output its reasoning_required_pred value unchanged; the list returned is,
\* element for element, the sequence of records serialized to the output file.
C11_RecordsVerbatim ==
    /\ Len(json_objs) <= Len(data)
    /\ \A i \in 1..Len(json_objs) :
          /\ DOMAIN json_objs[i] = {"input", "output"}
          /\ json_objs[i].input = form_question(data[i]).st
          /\ json_objs[i].output = data[i][AnswerKey]
    /\ pc = "done" =>
          /\ ret.returned
          /\ ret.val = json_objs
          /\ Len(ret.val) = Len(Source.map)
          /\ \A i \in 1..Len(ret.val) : ret.val[i].output = Source.map[i][AnswerKey]
          /\ Len(Lines(Output.text)) = Len(ret.val)
          /\ \A i \in 1..Len(ret.val) :
                /\ WellFormedLine(Lines(Output.text)[i])
                /\ DecodeLine(Lines(Output.text)[i]) = ret.val[i]

C11_Witness ==
    /\ pc = "done"
    /\ output_path # data_path
    /\ Len(ret.val) = 1
    /\ Len(Source.map[1]["LABELS"]) = 1
    /\ Source.map[1][AnswerKey] = <<"maybe">>
    /\ ret.val[1].output = <<"maybe">>
    /\ DecodeLine(Lines(Output.text)[1]).output = <<"maybe">>

\* C12: the conversion of all records comes before any write.  When the
\* source does not parse or a record, whichever its position, raises a
\* missing-field or index error, the invocation fails with the output file
\* never opened: a file at output_path holds what it held before and no file
\* is created there.
ConversionErrors == {"JSONDecodeError", "KeyError", "IndexError", "TypeError"}
C12_State ==
    /\ (pc = "failed" /\ error \in ConversionErrors) =>
          /\ opens = 0
          /\ handle = "closed"
          /\ fs = pre
    /\ pc \in {"load", "convert"} => (opens = 0 /\ fs = pre)
    /\ opens # 0 => (k = Len(data) /\ Len(json_objs) = Len(data))
C12_Step ==
    fs' # fs => (pc \in {"convert", "write"} /\ k = Len(data) /\ Len(json_objs) = Len(data))
C12_ConvertBeforeWrite == []C12_State /\ [][C12_Step]_vars

C12_Witness ==
    /\ pc = "failed"
    /\ error = "KeyError"
    /\ Len(data) = 2
    /\ k = 2
    /\ Len(json_objs) = 1
    /\ output_path # data_path
    /\ pre[output_path] = StaleOut
    /\ Output = StaleOut
====
